---- MODULE Spec2Model ----
(***************************************************************************)
(* rkyv_wrappers: the AsHashMap adapter (as_hashmap.rs) and the            *)
(* BitVecWrapper adapter (bitvec.rs), each driven through                  *)
(* serialize_with -> resolve_with -> read / deserialize_with over a sink.  *)
(*                                                                         *)
(* The sink is a sequence of cells; a position is the number of cells      *)
(* written before it (the cell at position p is sink[p + 1]).  A relative  *)
(* pointer is stored as target position minus the position of the field    *)
(* that holds it.                                                          *)
(***************************************************************************)
EXTENDS Integers, Sequences, FiniteSets, TLC

\* ---------------------------------------------------------------- bounds
MaxPairs == 3
MaxBits == 4
WordBits == 3
NumSeeds == 6
MaxPrefix == 1
MaxGap == 1
AlignCells == 2
\* MaxPairs:   longest Vec<(K, V)> given to AsHashMap
\* MaxBits:    longest BitVec given to BitVecWrapper
\* WordBits:   bits of one storage word T (a narrow BitStore)
\* NumSeeds:   displacement seeds tried (the library tries 2^31 of them)
\* MaxPrefix:  cells the sink holds before the adapter is invoked
\* MaxGap:     cells the parent writes between serialize_with and resolve_with
\* AlignCells: alignment, in cells, of the arrays the adapters write

Keys == {1, 2, 3, 4}
Orders == {"Lsb0", "Msb0"}
\* the fixed hash function, one of three stand-ins for the library's hasher
Hashers == {[a |-> 1, b |-> 1], [a |-> 2, b |-> 0], [a |-> 3, b |-> 4]}

Range(s) == {s[i] : i \in DOMAIN s}

RECURSIVE Pow2(_)
Pow2(n) == IF n = 0 THEN 1 ELSE 2 * Pow2(n - 1)

\* ------------------------------------------------------- cells of the sink
PadCell == [t |-> "pad", x |-> 0, y |-> 0]
WordCell(w) == [t |-> "word", x |-> w, y |-> 0]
ValCell(v) == [t |-> "val", x |-> v, y |-> 0]
EntryCell(k, off) == [t |-> "entry", x |-> k, y |-> off]
\* a displacement: u32::MAX (empty), a slot index, or a seed (high bit set)
DispEmpty == [t |-> "empty", x |-> 0, y |-> 0]
DispIndex(i) == [t |-> "index", x |-> i, y |-> 0]
DispSeed(s) == [t |-> "seed", x |-> s, y |-> 0]

\* ------------------------------------------------------------ the hasher
\* make_hasher(); k.hash(); finish(): a fixed hash of the key
Hash0(h, k) == (h.a * k + h.b) % 7
\* make_hasher(); seed.hash(); k.hash(); finish(): the hash under a seed
HashSeed(h, s, k) == ((h.a + s + 1) * k + h.b + 3 * s) % 11

\* ------------------------------------------ ArchivedHashIndex (the builder)
\* the bucket (displace index) of every item, and the bucket sizes
DisplaceOf(h, items, i) == Hash0(h, items[i][1]) % Len(items)
BucketSize(h, items, d) == Cardinality({i \in DOMAIN items : DisplaceOf(h, items, i) = d})

\* sort_by_key(|(displace, _)| (Reverse(bucket_size[displace]), displace)), stable
SortBefore(h, items, i, j) ==
    LET di == DisplaceOf(h, items, i)
        dj == DisplaceOf(h, items, j)
        si == BucketSize(h, items, di)
        sj == BucketSize(h, items, dj)
    IN  \/ si > sj
        \/ si = sj /\ di < dj
        \/ si = sj /\ di = dj /\ i < j

SortedItems(h, items) ==
    LET n == Len(items)
    IN  [r \in 1..n |->
            CHOOSE i \in 1..n : Cardinality({j \in 1..n : SortBefore(h, items, j, i)}) = r - 1]

\* the seeds under which every key of a bucket lands on a free slot of its own
SeedFits(h, items, bucket, occupied, s) ==
    LET n == Len(items)
        at(i) == HashSeed(h, s, items[i][1]) % n
    IN  /\ \A i \in bucket : at(i) \notin occupied
        /\ \A i, j \in bucket : i # j => at(i) # at(j)

FindSeed(h, items, bucket, occupied) ==
    LET fit == {s \in 0..(NumSeeds - 1) : SeedFits(h, items, bucket, occupied, s)}
    IN  IF fit = {} THEN NumSeeds ELSE CHOOSE s \in fit : \A u \in fit : s <= u

\* occupied[first_empty..].iter().position(|v| !v): the first free slot
FirstFree(occupied, firstEmpty, n) ==
    CHOOSE p \in firstEmpty..n : p \notin occupied /\ \A q \in firstEmpty..(p - 1) : q \in occupied

\* the loop over the sorted buckets; st = [ok, occupied, slot, disp, firstEmpty]
\* slots and displacement indexes are 0-based as in the code
RECURSIVE BuildFrom(_, _, _, _, _)
BuildFrom(h, items, sorted, start, st) ==
    IF start > Len(sorted) \/ ~st.ok THEN st
    ELSE
        LET n == Len(items)
            d == DisplaceOf(h, items, sorted[start])
            size == BucketSize(h, items, d)
            bucket == {sorted[r] : r \in start..(start + size - 1)}
        IN  IF size > 1
            THEN LET s == FindSeed(h, items, bucket, st.occupied)
                     at(i) == HashSeed(h, s, items[i][1]) % n
                 IN  IF s = NumSeeds
                     THEN [st EXCEPT !.ok = FALSE]
                     ELSE BuildFrom(h, items, sorted, start + size,
                            [st EXCEPT !.occupied = @ \cup {at(i) : i \in bucket},
                                       !.slot = [p \in 0..(n - 1) |->
                                                   IF \E i \in bucket : at(i) = p
                                                   THEN CHOOSE i \in bucket : at(i) = p
                                                   ELSE @[p]],
                                       !.disp = [@ EXCEPT ![d] = DispSeed(s)]])
            ELSE LET p == FirstFree(st.occupied, st.firstEmpty, n)
                 IN  BuildFrom(h, items, sorted, start + 1,
                        [st EXCEPT !.occupied = @ \cup {p},
                                   !.slot = [@ EXCEPT ![p] = sorted[start]],
                                   !.disp = [@ EXCEPT ![d] = DispIndex(p)],
                                   !.firstEmpty = p + 1])

\* ArchivedHashIndex::build_and_serialize, up to the write of the displacements
BuildIndex(h, items) ==
    LET n == Len(items)
    IN  BuildFrom(h, items, SortedItems(h, items), 1,
            [ok |-> TRUE, occupied |-> {}, slot |-> [p \in 0..(n - 1) |-> 0],
             disp |-> [d \in 0..(n - 1) |-> DispEmpty], firstEmpty |-> 0])

\* ------------------------------------------------------------- the sink
Scratch == [kind |-> "scratch", cells |-> <<>>]
Write(cells) == [kind |-> "write", cells |-> cells]
\* Serializer::align: the padding that brings position p to the alignment
PadTo(p) == (AlignCells - (p % AlignCells)) % AlignCells
AlignOp(p) == Write([i \in 1..PadTo(p) |-> PadCell])

RECURSIVE Flatten(_, _)
Flatten(ops, k) == IF k = 0 THEN <<>> ELSE Flatten(ops, k - 1) \o ops[k].cells

\* the sink accepts `budget` operations and fails the next one; the caller's `?`
\* returns at the first failure, so no operation after the failing one is issued
ApplyOps(buf, ops, budget) ==
    LET n == Len(ops)
        accepted == IF budget < n THEN budget ELSE n
    IN  [ok |-> budget >= n,
         sink |-> buf \o Flatten(ops, accepted),
         nops |-> IF budget < n THEN budget + 1 ELSE n]

\* the cell at position p of the buffer (anything outside it reads as padding)
CellAt(buf, p) == IF p + 1 \in DOMAIN buf THEN buf[p + 1] ELSE PadCell

\* ------------------------------------------------ ArchivedHashMap (library)
\* ArchivedHashMap::serialize_from_iter: the sink operations and the resolver
\* for the items of the iterator, started at sink position p0
MapLayout(h, items, p0) ==
    LET n == Len(items)
        idx == BuildIndex(h, items)
        item(j) == items[idx.slot[j]]
        displacePos == p0 + PadTo(p0)
        valPos(j) == displacePos + n + j
        p3 == displacePos + 2 * n
        entriesPos == p3 + PadTo(p3)
    IN  [displacePos |-> displacePos,
         entriesPos |-> entriesPos,
         ops |-> <<Scratch, Scratch, Scratch, Scratch, Scratch, AlignOp(p0),
                   Write([j \in 1..n |-> idx.disp[j - 1]]),
                   Scratch, Scratch, Scratch, Scratch, Scratch>>
                 \o [j \in 1..n |-> Write(<<ValCell(item(j - 1)[2])>>)]
                 \o <<AlignOp(p3)>>
                 \o [j \in 1..n |->
                       Write(<<EntryCell(item(j - 1)[1], valPos(j - 1) - (entriesPos + j - 1))>>)]
                 \o <<Scratch, Scratch>>]

serialize_from_iter(h, items, buf, budget) ==
    LET lay == MapLayout(h, items, Len(buf))
        run == ApplyOps(buf, lay.ops, budget)
    IN  [ok |-> run.ok, sink |-> run.sink, nops |-> run.nops,
         a |-> IF run.ok THEN lay.displacePos ELSE 0,
         b |-> IF run.ok THEN lay.entriesPos ELSE 0]

\* ArchivedHashMap::resolve_from_len: the record holds the entry count at offset
\* 0, the displacement pointer at offset 1 and the entry pointer at offset 2
resolve_from_len_map(len, pos, resolver) ==
    [len |-> len,
     displace |-> resolver.a - (pos + 1),
     entries |-> resolver.b - (pos + 2),
     ptr |-> 0, vlen |-> 0, bit_len |-> 0]

\* ArchivedHashIndex::index
HashIndex(h, buf, pos, rec, k) ==
    IF rec.len = 0 THEN [some |-> FALSE, i |-> 0]
    ELSE LET d == CellAt(buf, pos + 1 + rec.displace + (Hash0(h, k) % rec.len))
         IN  IF d.t = "index" THEN [some |-> TRUE, i |-> d.x]
             ELSE IF d.t = "seed"
                  THEN [some |-> TRUE, i |-> HashSeed(h, d.x, k) % rec.len]
                  ELSE [some |-> FALSE, i |-> 0]

\* ArchivedHashMap::get: the entry the index names, if its key equals k
MapGet(h, buf, pos, rec, k) ==
    LET at == HashIndex(h, buf, pos, rec, k)
        ePos == pos + 2 + rec.entries + at.i
        e == CellAt(buf, ePos)
    IN  IF at.some /\ e.t = "entry" /\ e.x = k
        THEN [found |-> TRUE, val |-> CellAt(buf, ePos + e.y).x]
        ELSE [found |-> FALSE, val |-> 0]

\* ArchivedHashMap::iter: the archived entries in their stored order
MapIter(buf, pos, rec) ==
    [j \in 1..rec.len |->
        LET ePos == pos + 2 + rec.entries + j - 1
            e == CellAt(buf, ePos)
        IN  <<e.x, CellAt(buf, ePos + e.y).x>>]

\* ------------------------------------------------------- BitVec (library)
\* a BitVec<T, O> is [head, len, words, order]: its live bits are the raw bits
\* head .. head + len - 1 of its words; the bits before head and after the
\* tail are dead
Elts(n) == (n + WordBits - 1) \div WordBits

\* bit i (0-based) of word w under bit order o
BitAt(w, i, o) ==
    IF o = "Lsb0" THEN (w \div Pow2(i)) % 2 ELSE (w \div Pow2(WordBits - 1 - i)) % 2

\* view_bits::<O>(): every bit of every word, in order
view_bits(words, o) ==
    [i \in 1..(Len(words) * WordBits) |->
        BitAt(words[((i - 1) \div WordBits) + 1], (i - 1) % WordBits, o)]

\* BitVec::as_raw_slice: the words that hold the live bits, dead bits included
as_raw_slice(bv) == SubSeq(bv.words, 1, Elts(bv.head + bv.len))

\* the sequence of bits a BitVec denotes (what == on BitVec compares)
BitsOf(bv) == [i \in 1..bv.len |-> view_bits(bv.words, bv.order)[bv.head + i]]

\* BitVec::from_vec and BitVec::truncate
from_vec(vec, o) == [head |-> 0, len |-> Len(vec) * WordBits, words |-> vec, order |-> o]
truncate(bv, n) == IF n < bv.len THEN [bv EXCEPT !.len = n] ELSE bv

\* the word that holds raw bits (wi * WordBits) .. of a sequence of raw bits
RECURSIVE PackWord(_, _, _, _)
PackWord(raw, wi, o, i) ==
    IF i = WordBits THEN 0
    ELSE raw[wi * WordBits + i + 1]
            * (IF o = "Lsb0" THEN Pow2(i) ELSE Pow2(WordBits - 1 - i))
         + PackWord(raw, wi, o, i + 1)

\* the BitVec with the given head and live bits whose dead bits all are `fill`
MakeBitVec(hd, bits, fill, o) ==
    LET n == Elts(hd + Len(bits))
        raw == [i \in 1..(n * WordBits) |->
                  IF i > hd /\ i <= hd + Len(bits) THEN bits[i - hd] ELSE fill]
    IN  [head |-> hd, len |-> Len(bits), order |-> o,
         words |-> [w \in 1..n |-> PackWord(raw, w - 1, o, 0)]]

EmptyBitVec == [head |-> 0, len |-> 0, words |-> <<>>, order |-> "Lsb0"]

\* -------------------------------------------------- ArchivedVec (library)
\* ArchivedVec::serialize_from_slice: scratch for the resolvers, the alignment,
\* one write per word, the release of the scratch
serialize_from_slice(slice, buf, budget) ==
    LET p0 == Len(buf)
        run == ApplyOps(buf,
                  <<Scratch, AlignOp(p0)>>
                  \o [i \in 1..Len(slice) |-> Write(<<WordCell(slice[i])>>)]
                  \o <<Scratch>>, budget)
    IN  [ok |-> run.ok, sink |-> run.sink, nops |-> run.nops,
         a |-> IF run.ok THEN p0 + PadTo(p0) ELSE 0, b |-> 0]

\* ArchivedVec::resolve_from_slice: the relative pointer and the length
resolve_from_slice(slice, pos, resolver) == [ptr |-> resolver.a - pos, vlen |-> Len(slice)]

\* ArchivedVec::as_slice: the words the relative pointer of the field at
\* position fieldPos names
ArchivedWords(buf, fieldPos, inner) ==
    [i \in 1..inner.vlen |-> CellAt(buf, fieldPos + inner.ptr + i - 1).x]

\* ------------------------------------------------ AsHashMap (as_hashmap.rs)
\* a resolve_with that sizes the map by the vector's capacity, one more than
\* its length
resolve_with_map_capacity(field, pos, resolver) ==
    resolve_from_len_map(Len(field) + 1, pos, resolver)

\* resolve_with: ArchivedHashMap::resolve_from_len(field.len(), pos, resolver, out)
resolve_with_map(field, pos, resolver) == resolve_from_len_map(Len(field), pos, resolver)

\* a serialize_with whose iterator stops one pair early
serialize_with_map_short(h, field, buf, budget) ==
    serialize_from_iter(h, [i \in 1..(Len(field) - 1) |-> <<field[i][1], field[i][2]>>],
                        buf, budget)

\* serialize_with: serialize_from_iter(field.iter().map(|(x, y)| (x, y)), serializer)
serialize_with_map(h, field, buf, budget) ==
    serialize_from_iter(h, [i \in DOMAIN field |-> <<field[i][1], field[i][2]>>], buf, budget)

\* a deserialize_with that walks the archived entries backwards
deserialize_with_map_rev(buf, pos, rec, dbudget) ==
    LET entries == MapIter(buf, pos, rec)
        total == 2 * Len(entries)
    IN  IF dbudget >= total
        THEN [done |-> TRUE, ok |-> TRUE,
              pairs |-> [j \in 1..Len(entries) |-> entries[Len(entries) + 1 - j]],
              bits |-> EmptyBitVec, errAt |-> 0, calls |-> total]
        ELSE [done |-> TRUE, ok |-> FALSE, pairs |-> <<>>, bits |-> EmptyBitVec,
              errAt |-> dbudget, calls |-> dbudget + 1]

\* a deserialize_with that converts every entry before it looks for a failure
deserialize_with_map_eager(buf, pos, rec, dbudget) ==
    LET entries == MapIter(buf, pos, rec)
        total == 2 * Len(entries)
    IN  IF dbudget >= total
        THEN [done |-> TRUE, ok |-> TRUE, pairs |-> entries, bits |-> EmptyBitVec,
              errAt |-> 0, calls |-> total]
        ELSE [done |-> TRUE, ok |-> FALSE, pairs |-> <<>>, bits |-> EmptyBitVec,
              errAt |-> dbudget, calls |-> total]

\* deserialize_with: field.iter().map(|(k, v)| Ok((k.deserialize(d)?,
\* v.deserialize(d)?))).collect(); the deserializer converts dbudget keys and
\* values and fails the next one; collect stops at the first Err
deserialize_with_map(buf, pos, rec, dbudget) ==
    LET entries == MapIter(buf, pos, rec)
        total == 2 * Len(entries)
    IN  IF dbudget >= total
        THEN [done |-> TRUE, ok |-> TRUE, pairs |-> entries, bits |-> EmptyBitVec,
              errAt |-> 0, calls |-> total]
        ELSE [done |-> TRUE, ok |-> FALSE, pairs |-> <<>>, bits |-> EmptyBitVec,
              errAt |-> dbudget, calls |-> dbudget + 1]

\* ------------------------------------------------ BitVecWrapper (bitvec.rs)
\* Deref for ArchivedBitVec: &self.inner.view_bits::<O>()[..self.bit_len];
\* the range panics when bit_len exceeds the bits of the words
deref(buf, pos, fp, rec, o) ==
    LET all == view_bits(ArchivedWords(buf, pos + fp, rec), o)
    IN  IF rec.bit_len <= Len(all)
        THEN [set |-> TRUE, ok |-> TRUE, bits |-> SubSeq(all, 1, rec.bit_len)]
        ELSE [set |-> TRUE, ok |-> FALSE, bits |-> <<>>]

\* ArchivedBitVec::as_slice
as_slice(buf, pos, fp, rec, o) == deref(buf, pos, fp, rec, o)

\* a resolve_with that resolves the word array at the position of the record
\* instead of the position of its field
resolve_with_bits_at_record(field, pos, resolver, fp) ==
    LET inner == resolve_from_slice(as_raw_slice(field), pos, resolver)
    IN  [len |-> 0, displace |-> 0, entries |-> 0,
         ptr |-> inner.ptr, vlen |-> inner.vlen, bit_len |-> field.len]

\* a resolve_with that stores the bit capacity of the words as the bit length
resolve_with_bits_capacity(field, pos, resolver, fp) ==
    LET inner == resolve_from_slice(as_raw_slice(field), pos + fp, resolver)
    IN  [len |-> 0, displace |-> 0, entries |-> 0,
         ptr |-> inner.ptr, vlen |-> inner.vlen, bit_len |-> inner.vlen * WordBits]

\* resolve_with: the word array resolved at the position of the field `inner`
\* (pos + fp), the bit length resolved from field.len()
resolve_with_bits(field, pos, resolver, fp) ==
    LET inner == resolve_from_slice(as_raw_slice(field), pos + fp, resolver)
    IN  [len |-> 0, displace |-> 0, entries |-> 0,
         ptr |-> inner.ptr, vlen |-> inner.vlen, bit_len |-> field.len]

\* a serialize_with that takes back what it wrote when the sink fails
serialize_with_bits_rollback(field, buf, budget) ==
    LET r == serialize_from_slice(as_raw_slice(field), buf, budget)
    IN  IF r.ok THEN r ELSE [r EXCEPT !.sink = buf]

\* serialize_with: the raw words through ArchivedVec::serialize_from_slice, then
\* usize::serialize(&field.len(), serializer), which issues no sink operation
serialize_with_bits(field, buf, budget) == serialize_from_slice(as_raw_slice(field), buf, budget)

\* deserialize_with: ArchivedVec::deserialize (one conversion per word), the
\* bit length (one conversion), BitVec::from_vec(vec), truncate(bit_len)
deserialize_with_bits(buf, pos, fp, rec, o, dbudget) ==
    LET vec == ArchivedWords(buf, pos + fp, rec)
        total == Len(vec) + 1
    IN  IF dbudget >= total
        THEN [done |-> TRUE, ok |-> TRUE, pairs |-> <<>>,
              bits |-> truncate(from_vec(vec, o), rec.bit_len),
              errAt |-> 0, calls |-> total]
        ELSE [done |-> TRUE, ok |-> FALSE, pairs |-> <<>>, bits |-> EmptyBitVec,
              errAt |-> dbudget, calls |-> dbudget + 1]

\* ------------------------------------------------------------- the inputs
\* vectors of pairs with pairwise distinct keys (the caller's precondition);
\* the value 10 * k stands for the payload paired with key k
PairVecs ==
    {[i \in 1..Len(ks) |-> <<ks[i], 10 * ks[i]>>] :
        ks \in {f \in UNION {[1..m -> Keys] : m \in 0..MaxPairs} :
                  \A i, j \in DOMAIN f : i # j => f[i] # f[j]}}

\* bit-vectors of every length, head, content and bit order
BitVecs ==
    {MakeBitVec(t[1], t[2], t[3], t[4]) :
        t \in UNION {{<<hd, bs, fill, o>> : hd \in (IF n = 0 THEN {0} ELSE 0..(WordBits - 1)),
                                            bs \in [1..n -> {0, 1}],
                                            fill \in {0, 1}, o \in Orders} : n \in 0..MaxBits}}

NoOut == [len |-> 0, displace |-> 0, entries |-> 0, ptr |-> 0, vlen |-> 0, bit_len |-> 0]
NoResolver == [ok |-> FALSE, a |-> 0, b |-> 0]
NoLookup == [asked |-> FALSE, key |-> 0, found |-> FALSE, val |-> 0, again |-> FALSE]
NoView == [set |-> FALSE, ok |-> FALSE, bits |-> <<>>]
NoResult == [done |-> FALSE, ok |-> FALSE, pairs |-> <<>>, bits |-> EmptyBitVec,
             errAt |-> 0, calls |-> 0]

\* ---------------------------------------------------------------- state
VARIABLES
    pc,        \* "start", "failed", "serialized", "resolved", "deserialized"
    kind,      \* "map" (AsHashMap) or "bits" (BitVecWrapper)
    pairs,     \* the Vec<(K, V)> field
    bitvec,    \* the BitVec<T, O> field
    hasher,    \* the hash function of the archived hash index
    fpInner,   \* offset of the field `inner` inside ArchivedBitVec
    sink,      \* the cells the sink holds
    sink0,     \* the sink when serialize_with was called
    budget,    \* operations the sink accepts during serialize_with
    nops,      \* sink operations serialize_with issued
    resolver,  \* the result of serialize_with
    gap,       \* cells the parent wrote after serialize_with
    pos,       \* the position of the output record
    out,       \* the output record resolve_with filled
    last,      \* the last lookup on the archived map
    view,      \* the last view taken of the archived bit-vector
    dbudget,   \* conversions the deserializer performs before it fails
    dres       \* the result of deserialize_with

vars == <<pc, kind, pairs, bitvec, hasher, fpInner, sink, sink0, budget, nops,
          resolver, gap, pos, out, last, view, dbudget, dres>>

\* the hasher is one under which the seed search of the index builder ends
\* within NumSeeds seeds (the library searches 2^31 seeds)
Init ==
    /\ pc = "start"
    /\ kind \in {"map", "bits"}
    /\ hasher \in Hashers
    /\ IF kind = "map"
       THEN /\ pairs \in PairVecs
            /\ BuildIndex(hasher, pairs).ok
            /\ bitvec = EmptyBitVec
            /\ fpInner = 0
       ELSE /\ pairs = <<>>
            /\ hasher = [a |-> 1, b |-> 1]
            /\ bitvec \in BitVecs
            /\ fpInner \in {0, 1}
    /\ sink \in UNION {[1..n -> {PadCell}] : n \in 0..MaxPrefix}
    /\ sink0 = sink
    /\ budget = 0
    /\ nops = 0
    /\ resolver = NoResolver
    /\ gap = 0
    /\ pos = 0
    /\ out = NoOut
    /\ last = NoLookup
    /\ view = NoView
    /\ dbudget = 0
    /\ dres = NoResult

\* the serializer runs the adapter's serialize_with on a sink that accepts b
\* more operations
SerializeDone(r, b) ==
    /\ pc' = IF r.ok THEN "serialized" ELSE "failed"
    /\ sink' = r.sink
    /\ sink0' = sink
    /\ budget' = b
    /\ nops' = r.nops
    /\ resolver' = [ok |-> r.ok, a |-> r.a, b |-> r.b]
    /\ UNCHANGED <<kind, pairs, bitvec, hasher, fpInner, gap, pos, out, last, view, dbudget, dres>>

SerializeMap ==
    /\ pc = "start"
    /\ kind = "map"
    /\ \E b \in 0..(15 + 2 * Len(pairs)) :
          SerializeDone(serialize_with_map(hasher, pairs, sink, b), b)

SerializeBits ==
    /\ pc = "start"
    /\ kind = "bits"
    /\ \E b \in 0..(3 + Len(bitvec.words)) :
          SerializeDone(serialize_with_bits(bitvec, sink, b), b)

\* the parent serializes something else before it places the record
ParentWrite ==
    /\ pc = "serialized"
    /\ gap < MaxGap
    /\ sink' = Append(sink, PadCell)
    /\ gap' = gap + 1
    /\ UNCHANGED <<pc, kind, pairs, bitvec, hasher, fpInner, sink0, budget, nops,
                   resolver, pos, out, last, view, dbudget, dres>>

\* the parent places the record at the sink's position and resolves it there
ResolveMap ==
    /\ pc = "serialized"
    /\ kind = "map"
    /\ pc' = "resolved"
    /\ pos' = Len(sink)
    /\ out' = resolve_with_map(pairs, Len(sink), resolver)
    /\ UNCHANGED <<kind, pairs, bitvec, hasher, fpInner, sink, sink0, budget, nops,
                   resolver, gap, last, view, dbudget, dres>>

\* a resolve step that also appends the record's cells to the sink
ResolveBitsWriting ==
    /\ pc = "serialized"
    /\ kind = "bits"
    /\ pc' = "resolved"
    /\ pos' = Len(sink)
    /\ out' = resolve_with_bits(bitvec, Len(sink), resolver, fpInner)
    /\ sink' = sink \o <<PadCell, PadCell, PadCell>>
    /\ UNCHANGED <<kind, pairs, bitvec, hasher, fpInner, sink0, budget, nops,
                   resolver, gap, last, view, dbudget, dres>>

ResolveBits ==
    /\ pc = "serialized"
    /\ kind = "bits"
    /\ pc' = "resolved"
    /\ pos' = Len(sink)
    /\ out' = resolve_with_bits(bitvec, Len(sink), resolver, fpInner)
    /\ UNCHANGED <<kind, pairs, bitvec, hasher, fpInner, sink, sink0, budget, nops,
                   resolver, gap, last, view, dbudget, dres>>

\* output.hash_map.get(&k)
Lookup(k) ==
    /\ pc = "resolved"
    /\ kind = "map"
    /\ LET r == MapGet(hasher, sink, pos, out, k)
       IN  last' = [asked |-> TRUE, key |-> k, found |-> r.found, val |-> r.val,
                    again |-> last.asked /\ last.key = k]
    /\ UNCHANGED <<pc, kind, pairs, bitvec, hasher, fpInner, sink, sink0, budget, nops,
                   resolver, gap, pos, out, view, dbudget, dres>>

\* output.bitvec.as_slice()
AsSlice ==
    /\ pc = "resolved"
    /\ kind = "bits"
    /\ view' = as_slice(sink, pos, fpInner, out, bitvec.order)
    /\ UNCHANGED <<pc, kind, pairs, bitvec, hasher, fpInner, sink, sink0, budget, nops,
                   resolver, gap, pos, out, last, dbudget, dres>>

\* deserialize_with on a deserializer that converts d elements before it fails
DeserializeMap ==
    /\ pc = "resolved"
    /\ kind = "map"
    /\ pc' = "deserialized"
    /\ \E d \in 0..(2 * out.len) :
          /\ dbudget' = d
          /\ dres' = deserialize_with_map(sink, pos, out, d)
    /\ UNCHANGED <<kind, pairs, bitvec, hasher, fpInner, sink, sink0, budget, nops,
                   resolver, gap, pos, out, last, view>>

DeserializeBits ==
    /\ pc = "resolved"
    /\ kind = "bits"
    /\ pc' = "deserialized"
    /\ \E d \in 0..(out.vlen + 1) :
          /\ dbudget' = d
          /\ dres' = deserialize_with_bits(sink, pos, fpInner, out, bitvec.order, d)
    /\ UNCHANGED <<kind, pairs, bitvec, hasher, fpInner, sink, sink0, budget, nops,
                   resolver, gap, pos, out, last, view>>

Next ==
    \/ SerializeMap
    \/ SerializeBits
    \/ ParentWrite
    \/ ResolveMap
    \/ ResolveBits
    \/ \E k \in Keys : Lookup(k)
    \/ AsSlice
    \/ DeserializeMap
    \/ DeserializeBits

Spec == Init /\ [][Next]_vars

\* ------------------------------------------------------------ properties
Count(seq, e) == Cardinality({i \in DOMAIN seq : seq[i] = e})
Archived == pc \in {"resolved", "deserialized"}
MapDone == pc = "deserialized" /\ kind = "map"
BitsDone == pc = "deserialized" /\ kind = "bits"
\* the value the vector pairs with key k, if any
Expected(k) ==
    IF \E i \in DOMAIN pairs : pairs[i][1] = k
    THEN [found |-> TRUE, val |-> pairs[CHOOSE i \in DOMAIN pairs : pairs[i][1] = k][2]]
    ELSE [found |-> FALSE, val |-> 0]
\* the sink operations serialize_with needs on the field
NeededOps ==
    IF kind = "map" THEN MapLayout(hasher, pairs, Len(sink0)).ops
    ELSE <<Scratch, AlignOp(Len(sink0))>>
         \o [i \in 1..Len(as_raw_slice(bitvec)) |-> Write(<<WordCell(as_raw_slice(bitvec)[i])>>)]
         \o <<Scratch>>

\* C1: serialize_with, resolve_with, then deserialize_with with a deserializer
\* that does not fail gives a vector with the same pairs as the original, each
\* as often as in the original, whatever their order.
MapRoundTripMultiset ==
    (MapDone /\ dres.ok) =>
        /\ Len(dres.pairs) = Len(pairs)
        /\ \A e \in Range(pairs) \cup Range(dres.pairs) : Count(dres.pairs, e) = Count(pairs, e)

MapRoundTripMultisetWitness ==
    MapDone /\ dres.ok /\ Len(pairs) = 3 /\ dres.pairs[1] = pairs[3]

\* C2 as stated: the deserialized vector equals the original element by
\* element, in the same order.
MapRoundTripSameOrder ==
    (MapDone /\ dres.ok) => dres.pairs = pairs

\* C2 amended: the deserialized vector holds the original pairs in the order of
\* the archived slots: its element j + 1 is the input pair the hash index put
\* in slot j.
MapRoundTripSlotOrder ==
    (MapDone /\ dres.ok) =>
        /\ Len(dres.pairs) = Len(pairs)
        /\ LET slot == BuildIndex(hasher, pairs).slot
           IN  \A j \in 0..(Len(pairs) - 1) : dres.pairs[j + 1] = pairs[slot[j]]

MapRoundTripSlotOrderWitness ==
    MapDone /\ dres.ok /\ Len(pairs) >= 2 /\ dres.pairs # pairs

\* C3: a lookup of a key of the input gives the value paired with it, a lookup
\* of any other key gives not-found (also on the empty map), and a repeated
\* lookup gives the same answer.
MapLookupCorrect ==
    (kind = "map" /\ Archived /\ last.asked) =>
        [found |-> last.found, val |-> last.val] = Expected(last.key)

MapLookupCorrectWitness ==
    /\ kind = "map" /\ Archived /\ last.asked /\ last.again /\ last.found
    /\ Len(pairs) >= 2
    /\ \E d \in 0..(Len(pairs) - 1) : BuildIndex(hasher, pairs).disp[d].t = "seed"

\* C4: the view as_slice / deref returns has the length of the original BitVec
\* and the original's bits.
BitViewExact ==
    (kind = "bits" /\ view.set) => (view.ok /\ view.bits = BitsOf(bitvec))

\* C5: serialize_with, resolve_with, then deserialize_with with a deserializer
\* that does not fail gives a BitVec of the original's length and bits.
BitRoundTrip ==
    (BitsDone /\ dres.ok) =>
        (dres.bits.len = bitvec.len /\ BitsOf(dres.bits) = BitsOf(bitvec))

\* C6: serialize_with fails exactly when a sink operation fails; it stops at
\* the first failure and leaves in the sink what the sink had accepted; when no
\* sink operation fails it returns a resolver.
SerializeErrors ==
    (pc \in {"failed", "serialized"} /\ gap = 0) =>
        LET ops == NeededOps
        IN  /\ resolver.ok <=> budget >= Len(ops)
            /\ resolver.ok => (pc = "serialized" /\ nops = Len(ops))
            /\ ~resolver.ok => (pc = "failed" /\ nops = budget + 1)
            /\ sink = sink0 \o Flatten(ops, IF budget < Len(ops) THEN budget ELSE Len(ops))

SerializeErrorsWitness ==
    pc = "failed" /\ Len(sink) >= Len(sink0) + 2 /\ nops = budget + 1

\* C7: resolve_with always completes, changes only the output record (and the
\* position it was given), and no adapter operation writes to the sink once
\* serialize_with has returned.
ResolveFrame ==
    [][/\ (pc = "serialized" /\ pc' # "serialized") =>
             /\ pc' = "resolved"
             /\ <<kind, pairs, bitvec, hasher, fpInner, sink, sink0, budget, nops,
                  resolver, gap, last, view, dbudget, dres>>'
                = <<kind, pairs, bitvec, hasher, fpInner, sink, sink0, budget, nops,
                    resolver, gap, last, view, dbudget, dres>>
       /\ Archived => sink' = sink]_vars

ResolveFrameWitness ==
    pc = "resolved" /\ Len(sink) > Len(sink0) + gap /\ gap > 0

\* C8: the offset stored in the word-array field, added to the position of that
\* field, is the position where serialize_with wrote the words, and the stored
\* count is the number of backing words, wherever the record is placed.
BitsOffsetRelative ==
    (kind = "bits" /\ Archived) =>
        /\ out.ptr + (pos + fpInner) = Len(sink0) + PadTo(Len(sink0))
        /\ out.vlen = Len(as_raw_slice(bitvec))
        /\ \A i \in 1..out.vlen :
              sink[pos + fpInner + out.ptr + i] = WordCell(as_raw_slice(bitvec)[i])

BitsOffsetRelativeWitness ==
    /\ kind = "bits" /\ pc = "resolved" /\ fpInner = 1 /\ gap = 1
    /\ Len(sink0) = 1 /\ out.vlen = 2

\* C9: the archived bit-vector stores the original's bit length and all its
\* backing words, the bit length never exceeds the bits of the stored words,
\* and the truncations of the view and of deserialize_with stay in bounds.
BitLenInvariant ==
    (kind = "bits" /\ Archived) =>
        /\ out.bit_len = bitvec.len
        /\ ArchivedWords(sink, pos + fpInner, out) = as_raw_slice(bitvec)
        /\ out.bit_len <= out.vlen * WordBits
        /\ view.set => (view.ok /\ Len(view.bits) = out.bit_len)
        /\ (pc = "deserialized" /\ dres.ok) => dres.bits.len = out.bit_len

BitLenInvariantWitness ==
    /\ BitsDone /\ dres.ok /\ view.set
    /\ bitvec.len % WordBits # 0 /\ bitvec.head > 0 /\ out.vlen = 2

\* C10: deserialize_with of AsHashMap fails exactly when a key or value
\* conversion fails, at the first one, converting nothing after it and
\* returning no pairs; it leaves the archive as it was; without a failure it
\* returns one pair for each archived entry.
MapDeserializeErrors ==
    [][(pc = "resolved" /\ pc' = "deserialized" /\ kind = "map") =>
          /\ sink' = sink /\ out' = out /\ pos' = pos
          /\ dres'.ok <=> dbudget' >= 2 * out.len
          /\ dres'.ok =>
                /\ Len(dres'.pairs) = out.len
                /\ dres'.pairs = MapIter(sink, pos, out)
                /\ dres'.calls = 2 * out.len
          /\ ~dres'.ok =>
                /\ dres'.errAt = dbudget'
                /\ dres'.calls = dbudget' + 1
                /\ dres'.pairs = <<>>]_vars

MapDeserializeErrorsWitness ==
    MapDone /\ ~dres.ok /\ dres.errAt = 3 /\ out.len = 3
====
